---------------------------- MODULE Spec2Model ----------------------------
(***************************************************************************)
(* Model of the three-party fortune protocol of this repository:          *)
(*   - auth-server.go : the aserver (UDP), handleRequest per datagram      *)
(*   - client.go      : the client driver (main) and, in the same file,    *)
(*                      the fserver: FortuneServerRPC.GetFortuneInfo (RPC) *)
(*                      and fortune (UDP), one goroutine per datagram.     *)
(*                                                                         *)
(* int64 values are kept at their full width: a value is its 64-bit        *)
(* two's-complement pattern written as ten base-128 digits, least          *)
(* significant first (nine 7-bit digits and bit 63), which is exactly the  *)
(* grouping binary.PutVarint emits.  MD5 is modelled as a collision-free   *)
(* symbolic digest of the bytes it is given.  math/rand is modelled as a   *)
(* deterministic stream per seed: the k-th draw after Seed(s) is a fixed   *)
(* 63-bit value.                                                           *)
(***************************************************************************)
EXTENDS Integers, Sequences, FiniteSets, TLC

(***************************************************************************)
(* Bounds of the model.                                                    *)
(***************************************************************************)
\* datagrams that hosts other than the client may send to the two services
MaxDatagrams == 1

(***************************************************************************)
(* int64 arithmetic.                                                       *)
(***************************************************************************)
Digits == 1..10

DigitBase(i) == IF i = 10 THEN 2 ELSE 128

\* the ten digits F(1) .. F(10) as an int64
Digits10(F(_)) == <<F(1), F(2), F(3), F(4), F(5), F(6), F(7), F(8), F(9), F(10)>>

\* a non-negative literal (below 2^31) as an int64
Nat64(n) ==
    LET D(i) == IF i <= 5 THEN (n \div (128 ^ (i - 1))) % 128 ELSE 0
    IN  Digits10(D)

\* bitwise complement (^x)
Not64(x) ==
    LET D(i) == DigitBase(i) - 1 - x[i]
    IN  Digits10(D)

\* an integer literal as an int64 (two's complement)
Int64(n) == IF n >= 0 THEN Nat64(n) ELSE Not64(Nat64(-n - 1))

Zero64 == Nat64(0)

IsNeg64(x) == x[10] = 1

\* the digits i .. 10 of a + b, given the carry into digit i
RECURSIVE AddFrom(_, _, _, _)
AddFrom(a, b, i, carry) ==
    IF i > 10 THEN <<>>
    ELSE <<(a[i] + b[i] + carry) % DigitBase(i)>>
         \o AddFrom(a, b, i + 1, (a[i] + b[i] + carry) \div 128)

\* a + b on int64: wraps modulo 2^64, as Go's addition does
Add64(a, b) == AddFrom(a, b, 1, 0)

\* uint64(x) << 1
Shl1(x) ==
    LET D(i) == (2 * x[i] + (IF i > 1 THEN x[i - 1] \div 64 ELSE 0)) % DigitBase(i)
    IN  Digits10(D)

(***************************************************************************)
(* binary.PutVarint, md5.Sum, hex.EncodeToString.                          *)
(***************************************************************************)
\* the zig-zag step of PutVarint: ux := uint64(x) << 1; if x < 0 { ux = ^ux }
ZigZag(x) == IF IsNeg64(x) THEN Not64(Shl1(x)) ELSE Shl1(x)

\* number of bytes PutUvarint writes for ux: one per 7-bit group up to the
\* highest group that is not zero, and at least one
RECURSIVE UvarintLenFrom(_, _)
UvarintLenFrom(ux, i) ==
    IF i = 1 \/ ux[i] # 0 THEN i ELSE UvarintLenFrom(ux, i - 1)

UvarintLen(ux) == UvarintLenFrom(ux, 10)

\* the bytes PutUvarint writes: every group but the last carries the 0x80 bit
UvarintBytes(ux) ==
    LET n == UvarintLen(ux)
    IN  [i \in 1..n |-> IF i < n THEN ux[i] + 128 ELSE ux[i]]

\* binary.PutVarint(buf, x) on a buffer of bufLen bytes: it panics (index out
\* of range) when the encoding is longer than the buffer
PutVarint(bufLen, x) ==
    LET ux == ZigZag(x)
    IN  [panic |-> UvarintLen(ux) > bufLen,
         n     |-> UvarintLen(ux),
         bytes |-> UvarintBytes(ux)]

\* strings: a literal text, or the 32 hex characters of an MD5 digest
Lit(txt) == [k |-> "lit", txt |-> txt, of |-> <<>>]

\* hex.EncodeToString(md5.Sum(bytes)): a digest determined by the bytes alone
Md5Hex(bytes) == [k |-> "md5hex", txt |-> "", of |-> bytes]

StrLen(s) == IF s.k = "md5hex" THEN 32 ELSE Len(s.txt)

\* HashOf with the secret left out of the sum
HashOfNonceOnly(nonce, sec) == Md5Hex(PutVarint(1024, nonce).bytes)

\* the client's hash: value := nonce + secret; n := PutVarint(msg, value) on its
\* 1024-byte buffer; hex(md5(msg[:n]))
HashOf(nonce, sec) == Md5Hex(PutVarint(1024, Add64(nonce, sec)).bytes)

(***************************************************************************)
(* encoding/json on the message structs.                                   *)
(***************************************************************************)
JStr(s) == [t |-> "string", s |-> s, i |-> Zero64]

JNum(i) == [t |-> "number", s |-> Lit(""), i |-> i]

ZeroOf(t) == IF t = "string" THEN JStr(Lit("")) ELSE JNum(Zero64)

\* payload bodies: bytes that are no JSON text, the JSON text null, or a JSON
\* object given by its members
Invalid == [kind |-> "invalid", f |-> <<>>]

JNull == [kind |-> "null", f |-> <<>>]

Obj(f) == [kind |-> "object", f |-> f]

\* the struct types: field name -> Go type as JSON sees it
HashMessage == "Hash" :> "string"

NonceMessage == "Nonce" :> "number"

FortuneInfoMessage == "FortuneServer" :> "string" @@ "FortuneNonce" :> "number"

FortuneReqMessage == "FortuneNonce" :> "number"

FortuneMessage == "Fortune" :> "string"

ErrMessage == "Error" :> "string"

\* json.Unmarshal(body, &v) for a zero v of struct type ty: a syntax error for
\* bytes that are no JSON; null leaves v untouched; an object sets the fields
\* it names with the right type, ignores members the struct does not have, and
\* reports an error for a member of the wrong type
Unmarshal(body, ty) ==
    [err |-> \/ body.kind = "invalid"
             \/ /\ body.kind = "object"
                /\ \E n \in DOMAIN ty \cap DOMAIN body.f : body.f[n].t # ty[n],
     v   |-> [n \in DOMAIN ty |->
                IF body.kind = "object" /\ n \in DOMAIN body.f /\ body.f[n].t = ty[n]
                THEN body.f[n]
                ELSE ZeroOf(ty[n])]]

\* json.Marshal of the reply structs
MarshalNonce(nonce) == Obj("Nonce" :> JNum(nonce))

MarshalErr(txt) == Obj("Error" :> JStr(Lit(txt)))

MarshalHash(h) == Obj("Hash" :> JStr(h))

MarshalFortuneInfo(server, nonce) ==
    Obj("FortuneServer" :> JStr(server) @@ "FortuneNonce" :> JNum(nonce))

MarshalFortuneReq(nonce) == Obj("FortuneNonce" :> JNum(nonce))

MarshalFortune(s) == Obj("Fortune" :> JStr(s))

(***************************************************************************)
(* Configuration (the command lines) and math/rand.                        *)
(***************************************************************************)
\* client network addresses (cAddr.String())
Addr == {"A", "B"}

\* aserver's [secret]
Secret == Int64(1984)

\* a secret the aserver was not started with
WrongSecret == Int64(-7)

\* fserver's [fortune-string]
FortuneString == Lit("seize the day")

\* fserver's [fserver UDP ip:port], kept in FortuneServerRPC.server
FserverUDP == Lit("fserver:udp")

\* the seeds the two servers pass to rand.Seed
AserverSeed == 222

FserverSeed == 110

\* rand.Int63(): the draw number k (from 0) of the source seeded with seed; a
\* deterministic 63-bit value, different for different k
Int63At(seed, k) ==
    LET D(i) == IF i = 10 THEN 0 ELSE (seed * 31 + k * 17 + i * 7) % 128
    IN  Digits10(D)

\* rand.Seed(seed) on the process-wide source
RandSeed(seed) == [seed |-> seed, k |-> 0]

\* the state of a process-wide source after one more draw
RandNext(r) == [seed |-> r.seed, k |-> r.k + 1]

(***************************************************************************)
(* State.                                                                  *)
(***************************************************************************)
VARIABLES
    aUp,         \* the aserver process is running (FALSE after a panic)
    records,     \* aserver: ClientRecords.m, client address -> nonce
    recordsMux,  \* aserver: ClientRecords.mux, the task holding it or NoTask
    aRand,       \* aserver: the process-wide math/rand source
    aTasks,      \* aserver: the live handleRequest goroutines, by task id
    rpcConn,     \* the RPC connection aserver -> fserver is up
    rpcTasks,    \* fserver: the running GetFortuneInfo calls, by calling task
    fm,          \* fserver: FortuneServerRPC.m, client address -> fortune nonce
    fMux,        \* fserver: FortuneServerRPC.mux, the task holding it or NoTask
    fRand,       \* fserver: the process-wide math/rand source
    fTasks,      \* fserver: the live fortune goroutines, by task id
    client,      \* the client processes, by local address
    sent,        \* every datagram the servers have written (WriteToUDP)
    ended,       \* ids of the tasks that have returned
    calls,       \* the GetFortuneInfo calls that have returned, with their results
    nRecv,       \* datagrams received so far by the two servers (task ids)
    nSent        \* datagrams sent so far by hosts other than the clients

vars == <<aUp, records, recordsMux, aRand, aTasks, rpcConn, rpcTasks, fm, fMux,
          fRand, fTasks, client, sent, ended, calls, nRecv, nSent>>

aVars == <<aUp, records, recordsMux, aRand, aTasks>>

fVars == <<fm, fMux, fRand, fTasks>>

NoTask == 0

\* a map without the key k / a task table without task h
Without(f, h) == [i \in DOMAIN f \ {h} |-> f[i]]

\* m[k] = v on a Go map
MapPut(m, k, v) == [i \in DOMAIN m \cup {k} |-> IF i = k THEN v ELSE m[i]]

\* the locals of a handleRequest goroutine
ATask(pc, cAddr, body, n, solo) ==
    [pc |-> pc, cAddr |-> cAddr, msg |-> body, n |-> n,
     hash |-> Unmarshal(body, HashMessage).v.Hash.s,
     newNonce |-> Zero64, validNonce |-> Zero64, ok |-> FALSE,
     fInfoMsg |-> [FortuneServer |-> Lit(""), FortuneNonce |-> Zero64],
     solo |-> solo]

\* the locals of a fortune goroutine
FTask(pc, cAddr, body) ==
    [pc |-> pc, cAddr |-> cAddr, msg |-> body,
     err |-> Unmarshal(body, FortuneReqMessage).err,
     fortuneReq |-> Unmarshal(body, FortuneReqMessage).v.FortuneNonce.i,
     validNonce |-> Zero64, ok |-> FALSE]

\* the locals of a GetFortuneInfo call
RTask(pc, clientAddr) == [pc |-> pc, clientAddr |-> clientAddr, newNonce |-> Zero64]

\* a written datagram: the service and task that wrote it, the destination,
\* the request it answers, what the task had read from its table, whether the
\* task ran with no other aserver task beside it, and whether the client at
\* the destination had a socket connected to the service when it was written
\* (a datagram for an address with no such socket is dropped)
Datagram(svc, h, t, body) ==
    [svc |-> svc, task |-> h, to |-> t.cAddr, req |-> t.msg, body |-> body,
     ok |-> t.ok, validNonce |-> t.validNonce,
     solo |-> IF svc = "aserver" THEN t.solo ELSE FALSE,
     heard |-> client[t.cAddr].conn = svc]

\* a client before it is started
IdleClient ==
    [pc |-> "idle", secret |-> Zero64, conn |-> "none", read |-> {},
     printed |-> <<>>, exit |-> -1]

Init ==
    /\ aUp = TRUE
    /\ records = <<>>
    /\ recordsMux = NoTask
    /\ aRand = RandSeed(1)
    /\ aTasks = <<>>
    /\ rpcConn = TRUE
    /\ rpcTasks = <<>>
    /\ fm = <<>>
    /\ fMux = NoTask
    /\ fRand = RandSeed(1)
    /\ fTasks = <<>>
    /\ client = [a \in Addr |-> IdleClient]
    /\ sent = {}
    /\ ended = {}
    /\ calls = {}
    /\ nRecv = 0
    /\ nSent = 0

(***************************************************************************)
(* aserver: main's receive loop and handleRequest.                         *)
(***************************************************************************)
\* a task writes one datagram to its client and returns
ReplyAndReturn(svc, h, t, body) ==
    /\ sent' = sent \cup {Datagram(svc, h, t, body)}
    /\ ended' = ended \cup {h}

\* ReadFromUDP returns a datagram of n bytes from address a; the loop starts
\* handleRequest on it, which unmarshals it as a HashMessage and branches
AuthReceive(a, body, n) ==
    /\ aUp
    /\ nRecv' = nRecv + 1
    /\ aTasks' = [h \in DOMAIN aTasks |-> [aTasks[h] EXCEPT !.solo = FALSE]]
                 @@ ((nRecv + 1) :>
                       ATask(IF Unmarshal(body, HashMessage).err THEN "seed" ELSE "lock_r",
                             a, body, n, DOMAIN aTasks = {}))
    /\ UNCHANGED <<aUp, records, recordsMux, aRand>>

\* rand.Seed(222)
AuthSeed(h) ==
    /\ aUp /\ h \in DOMAIN aTasks /\ aTasks[h].pc = "seed"
    /\ aRand' = RandSeed(AserverSeed)
    /\ aTasks' = [aTasks EXCEPT ![h].pc = "draw"]
    /\ UNCHANGED <<aUp, records, recordsMux, rpcConn, rpcTasks, fVars, client, sent,
                   ended, calls, nRecv, nSent>>

\* newNonce := rand.Int63()
AuthDraw(h) ==
    /\ aUp /\ h \in DOMAIN aTasks /\ aTasks[h].pc = "draw"
    /\ aRand' = RandNext(aRand)
    /\ aTasks' = [aTasks EXCEPT ![h].pc = "lock_w",
                                ![h].newNonce = Int63At(aRand.seed, aRand.k)]
    /\ UNCHANGED <<aUp, records, recordsMux, rpcConn, rpcTasks, fVars, client, sent,
                   ended, calls, nRecv, nSent>>

\* record.mux.Lock(), on either branch
AuthLock(h) ==
    /\ aUp /\ h \in DOMAIN aTasks /\ aTasks[h].pc \in {"lock_w", "lock_r"}
    /\ recordsMux = NoTask
    /\ recordsMux' = h
    /\ aTasks' = [aTasks EXCEPT ![h].pc = IF @ = "lock_w" THEN "store" ELSE "load"]
    /\ UNCHANGED <<aUp, records, aRand, rpcConn, rpcTasks, fVars, client, sent, ended,
                   calls, nRecv, nSent>>

\* AuthStore with the nonce written at every address
AuthStoreEverywhere(h) ==
    /\ aUp /\ h \in DOMAIN aTasks /\ aTasks[h].pc = "store"
    /\ recordsMux = h
    /\ records' = [a \in Addr |-> aTasks[h].newNonce]
    /\ recordsMux' = NoTask
    /\ aTasks' = [aTasks EXCEPT ![h].pc = "send_nonce"]
    /\ UNCHANGED <<aUp, aRand, rpcConn, rpcTasks, fVars, client, sent, ended, calls,
                   nRecv, nSent>>

\* record.m[cAddr.String()] = newNonce; record.mux.Unlock()
AuthStore(h) ==
    /\ aUp /\ h \in DOMAIN aTasks /\ aTasks[h].pc = "store"
    /\ recordsMux = h
    /\ records' = MapPut(records, aTasks[h].cAddr, aTasks[h].newNonce)
    /\ recordsMux' = NoTask
    /\ aTasks' = [aTasks EXCEPT ![h].pc = "send_nonce"]
    /\ UNCHANGED <<aUp, aRand, rpcConn, rpcTasks, fVars, client, sent, ended, calls,
                   nRecv, nSent>>

\* the NonceMessage handleRequest writes on the probe branch
NonceReply(t) == MarshalNonce(t.newNonce)

\* conn.WriteToUDP(json.Marshal(nonce), cAddr); return
AuthSendNonce(h) ==
    /\ aUp /\ h \in DOMAIN aTasks /\ aTasks[h].pc = "send_nonce"
    /\ ReplyAndReturn("aserver", h, aTasks[h], NonceReply(aTasks[h]))
    /\ aTasks' = Without(aTasks, h)
    /\ UNCHANGED <<aUp, records, recordsMux, aRand, rpcConn, rpcTasks, fVars, client,
                   calls, nRecv, nSent>>

\* AuthLoad without record.mux.Unlock()
AuthLoadKeepLock(h) ==
    /\ aUp /\ h \in DOMAIN aTasks /\ aTasks[h].pc = "load"
    /\ recordsMux = h
    /\ recordsMux' = h
    /\ aTasks' = [aTasks EXCEPT
                    ![h].pc = "check",
                    ![h].ok = aTasks[h].cAddr \in DOMAIN records,
                    ![h].validNonce = IF aTasks[h].cAddr \in DOMAIN records
                                      THEN records[aTasks[h].cAddr] ELSE Zero64]
    /\ UNCHANGED <<aUp, records, aRand, rpcConn, rpcTasks, fVars, client, sent, ended,
                   calls, nRecv, nSent>>

\* validNonce, ok := record.m[cAddr.String()]; record.mux.Unlock()
AuthLoad(h) ==
    /\ aUp /\ h \in DOMAIN aTasks /\ aTasks[h].pc = "load"
    /\ recordsMux = h
    /\ recordsMux' = NoTask
    /\ aTasks' = [aTasks EXCEPT
                    ![h].pc = "check",
                    ![h].ok = aTasks[h].cAddr \in DOMAIN records,
                    ![h].validNonce = IF aTasks[h].cAddr \in DOMAIN records
                                      THEN records[aTasks[h].cAddr] ELSE Zero64]
    /\ UNCHANGED <<aUp, records, aRand, rpcConn, rpcTasks, fVars, client, sent, ended,
                   calls, nRecv, nSent>>

\* AuthVerdict without the test of ok
AuthVerdictNoOkTest(t) ==
    LET pv == PutVarint(t.n, Add64(t.validNonce, Secret))
    IN  IF pv.panic THEN "panic"
        ELSE IF Md5Hex(pv.bytes) = t.hash THEN "match"
        ELSE "mismatch"

\* AuthVerdict without the comparison of the hash
AuthVerdictAnyHash(t) ==
    IF ~t.ok THEN "unknown"
    ELSE LET pv == PutVarint(t.n, Add64(t.validNonce, Secret))
         IN  IF pv.panic THEN "panic" ELSE "match"

\* what handleRequest does with a HashMessage once it has read the table:
\*   "unknown"  !ok
\*   "panic"    binary.PutVarint(msg, validNonce + secret) runs past the end of
\*              msg, the n bytes of the datagram
\*   "match"    hashStr == hash.Hash
\*   "mismatch" otherwise
AuthVerdict(t) ==
    IF ~t.ok THEN "unknown"
    ELSE LET pv == PutVarint(t.n, Add64(t.validNonce, Secret))
         IN  IF pv.panic THEN "panic"
             ELSE IF Md5Hex(pv.bytes) = t.hash THEN "match"
             ELSE "mismatch"

\* AuthErrText with the one text for both errors
AuthErrTextUnknown(verdict) == "unknown remote client address"

\* the ErrMessage texts of the aserver
AuthErrText(verdict) ==
    IF verdict = "unknown" THEN "unknown remote client address"
    ELSE "unexpected hash value"

\* the rest of the hash branch up to the RPC call: an error reply, the panic
\* (which ends the process and every goroutine in it), or
\* rpcClient.Call("FortuneServerRPC.GetFortuneInfo", cAddr.String(), &fInfoMsg),
\* which fails at once when the connection is down
AuthCheck(h) ==
    /\ aUp /\ h \in DOMAIN aTasks /\ aTasks[h].pc = "check"
    /\ LET t == aTasks[h]
           v == AuthVerdict(t)
       IN  CASE v = "panic" ->
                  /\ aUp' = FALSE
                  /\ aTasks' = <<>>
                  /\ UNCHANGED <<rpcTasks, sent, ended>>
             [] v = "match" /\ rpcConn ->
                  /\ rpcTasks' = rpcTasks @@ (h :> RTask("seed", t.cAddr))
                  /\ aTasks' = [aTasks EXCEPT ![h].pc = "await"]
                  /\ UNCHANGED <<aUp, sent, ended>>
             [] v = "match" /\ ~rpcConn ->
                  /\ aTasks' = Without(aTasks, h)
                  /\ ended' = ended \cup {h}
                  /\ UNCHANGED <<aUp, rpcTasks, sent>>
             [] OTHER ->
                  /\ ReplyAndReturn("aserver", h, t, MarshalErr(AuthErrText(v)))
                  /\ aTasks' = Without(aTasks, h)
                  /\ UNCHANGED <<aUp, rpcTasks>>
    /\ UNCHANGED <<records, recordsMux, aRand, rpcConn, fVars, client, calls, nRecv, nSent>>

\* InfoReply with a fortune nonce of the aserver's own making
InfoReplyOwnNonce(t) == MarshalFortuneInfo(t.fInfoMsg.FortuneServer, t.validNonce)

\* the FortuneInfoMessage handleRequest forwards
InfoReply(t) == MarshalFortuneInfo(t.fInfoMsg.FortuneServer, t.fInfoMsg.FortuneNonce)

\* err == nil: conn.WriteToUDP(json.Marshal(fInfoMsg), cAddr); return
AuthReplyInfo(h) ==
    /\ aUp /\ h \in DOMAIN aTasks /\ aTasks[h].pc = "reply"
    /\ ReplyAndReturn("aserver", h, aTasks[h], InfoReply(aTasks[h]))
    /\ aTasks' = Without(aTasks, h)
    /\ UNCHANGED <<aUp, records, recordsMux, aRand, rpcConn, rpcTasks, fVars, client,
                   calls, nRecv, nSent>>

\* AuthCallFailed with an ErrMessage written to the client
AuthCallFailedWithReply(h) ==
    /\ aUp /\ h \in DOMAIN aTasks /\ aTasks[h].pc = "await"
    /\ ~rpcConn
    /\ aTasks' = Without(aTasks, h)
    /\ ReplyAndReturn("aserver", h, aTasks[h], MarshalErr("unexpected hash value"))
    /\ UNCHANGED <<aUp, records, recordsMux, aRand, rpcConn, rpcTasks, fVars, client,
                   calls, nRecv, nSent>>

\* err != nil from rpcClient.Call: handleRequest falls off its end, no reply
AuthCallFailed(h) ==
    /\ aUp /\ h \in DOMAIN aTasks /\ aTasks[h].pc = "await"
    /\ ~rpcConn
    /\ aTasks' = Without(aTasks, h)
    /\ ended' = ended \cup {h}
    /\ UNCHANGED <<aUp, records, recordsMux, aRand, rpcConn, rpcTasks, fVars, client,
                   sent, calls, nRecv, nSent>>

\* the TCP connection of the RPC client breaks (rpc.ErrShutdown from then on)
RpcConnLost ==
    /\ rpcConn
    /\ rpcConn' = FALSE
    /\ UNCHANGED <<aVars, rpcTasks, fVars, client, sent, ended, calls, nRecv, nSent>>

(***************************************************************************)
(* fserver: FortuneServerRPC.GetFortuneInfo, served by net/rpc in a        *)
(* goroutine per call.  A call is named by the aserver task that made it.  *)
(***************************************************************************)
\* rand.Seed(110)
RpcSeed(h) ==
    /\ h \in DOMAIN rpcTasks /\ rpcTasks[h].pc = "seed"
    /\ fRand' = RandSeed(FserverSeed)
    /\ rpcTasks' = [rpcTasks EXCEPT ![h].pc = "draw"]
    /\ UNCHANGED <<aVars, rpcConn, fm, fMux, fTasks, client, sent, ended, calls, nRecv, nSent>>

\* newNonce := rand.Int63()
RpcDraw(h) ==
    /\ h \in DOMAIN rpcTasks /\ rpcTasks[h].pc = "draw"
    /\ fRand' = RandNext(fRand)
    /\ rpcTasks' = [rpcTasks EXCEPT ![h].pc = "lock",
                                    ![h].newNonce = Int63At(fRand.seed, fRand.k)]
    /\ UNCHANGED <<aVars, rpcConn, fm, fMux, fTasks, client, sent, ended, calls, nRecv, nSent>>

\* this.mux.Lock()
RpcLock(h) ==
    /\ h \in DOMAIN rpcTasks /\ rpcTasks[h].pc = "lock"
    /\ fMux = NoTask
    /\ fMux' = h
    /\ rpcTasks' = [rpcTasks EXCEPT ![h].pc = "store"]
    /\ UNCHANGED <<aVars, rpcConn, fm, fRand, fTasks, client, sent, ended, calls, nRecv, nSent>>

\* RpcStore with a fresh map holding the one entry
RpcStoreFresh(h) ==
    /\ h \in DOMAIN rpcTasks /\ rpcTasks[h].pc = "store"
    /\ fMux = h
    /\ fm' = MapPut(<<>>, rpcTasks[h].clientAddr, rpcTasks[h].newNonce)
    /\ fMux' = NoTask
    /\ rpcTasks' = [rpcTasks EXCEPT ![h].pc = "return"]
    /\ UNCHANGED <<aVars, rpcConn, fRand, fTasks, client, sent, ended, calls, nRecv, nSent>>

\* this.m[clientAddr] = newNonce; this.mux.Unlock()
RpcStore(h) ==
    /\ h \in DOMAIN rpcTasks /\ rpcTasks[h].pc = "store"
    /\ fMux = h
    /\ fm' = MapPut(fm, rpcTasks[h].clientAddr, rpcTasks[h].newNonce)
    /\ fMux' = NoTask
    /\ rpcTasks' = [rpcTasks EXCEPT ![h].pc = "return"]
    /\ UNCHANGED <<aVars, rpcConn, fRand, fTasks, client, sent, ended, calls, nRecv, nSent>>

\* the FortuneInfoMessage GetFortuneInfo fills in
Grant(r) == [FortuneServer |-> FserverUDP, FortuneNonce |-> r.newNonce]

\* return nil: the result travels back and rpcClient.Call returns in the
\* calling task, if that task is still waiting on a live connection
RpcReturn(h) ==
    /\ h \in DOMAIN rpcTasks /\ rpcTasks[h].pc = "return"
    /\ rpcTasks' = Without(rpcTasks, h)
    /\ calls' = calls \cup {[task |-> h, clientAddr |-> rpcTasks[h].clientAddr,
                             grant |-> Grant(rpcTasks[h])]}
    /\ aTasks' = IF aUp /\ rpcConn /\ h \in DOMAIN aTasks
                 THEN [aTasks EXCEPT ![h].pc = "reply",
                                     ![h].fInfoMsg = Grant(rpcTasks[h])]
                 ELSE aTasks
    /\ UNCHANGED <<aUp, records, recordsMux, aRand, rpcConn, fVars, client, sent,
                   ended, nRecv, nSent>>

(***************************************************************************)
(* fserver: main's receive loop and fortune.                               *)
(***************************************************************************)
\* ReadFromUDP returns a datagram from address a; the loop starts fortune on
\* it, which unmarshals it as a FortuneReqMessage
FortuneReceive(a, body) ==
    /\ nRecv' = nRecv + 1
    /\ fTasks' = fTasks @@
                 ((nRecv + 1) :>
                    FTask(IF Unmarshal(body, FortuneReqMessage).err THEN "reply" ELSE "lock",
                          a, body))
    /\ UNCHANGED <<fm, fMux, fRand>>

\* fortuneServerRPC.mux.Lock()
FortuneLock(h) ==
    /\ h \in DOMAIN fTasks /\ fTasks[h].pc = "lock"
    /\ fMux = NoTask
    /\ fMux' = h
    /\ fTasks' = [fTasks EXCEPT ![h].pc = "load"]
    /\ UNCHANGED <<aVars, rpcConn, rpcTasks, fm, fRand, client, sent, ended, calls,
                   nRecv, nSent>>

\* FortuneLoad with the entry deleted once it has been read
FortuneLoadAndDelete(h) ==
    /\ h \in DOMAIN fTasks /\ fTasks[h].pc = "load"
    /\ fMux = h
    /\ fMux' = NoTask
    /\ fm' = Without(fm, fTasks[h].cAddr)
    /\ fTasks' = [fTasks EXCEPT
                    ![h].pc = "reply",
                    ![h].ok = fTasks[h].cAddr \in DOMAIN fm,
                    ![h].validNonce = IF fTasks[h].cAddr \in DOMAIN fm
                                      THEN fm[fTasks[h].cAddr] ELSE Zero64]
    /\ UNCHANGED <<aVars, rpcConn, rpcTasks, fRand, client, sent, ended, calls,
                   nRecv, nSent>>

\* validNonce, ok := fortuneServerRPC.m[cAddr.String()]; mux.Unlock()
FortuneLoad(h) ==
    /\ h \in DOMAIN fTasks /\ fTasks[h].pc = "load"
    /\ fMux = h
    /\ fMux' = NoTask
    /\ fTasks' = [fTasks EXCEPT
                    ![h].pc = "reply",
                    ![h].ok = fTasks[h].cAddr \in DOMAIN fm,
                    ![h].validNonce = IF fTasks[h].cAddr \in DOMAIN fm
                                      THEN fm[fTasks[h].cAddr] ELSE Zero64]
    /\ UNCHANGED <<aVars, rpcConn, rpcTasks, fm, fRand, client, sent, ended, calls,
                   nRecv, nSent>>

\* FortuneAnswer without the comparison of the fortune nonce
FortuneAnswerAnyToken(t) ==
    IF t.err THEN MarshalErr("could not interpret message")
    ELSE IF ~t.ok THEN MarshalErr("unknown remote client address")
    ELSE MarshalFortune(FortuneString)

\* FortuneAnswer with the table lookup tested before the decode error
FortuneAnswerTableFirst(t) ==
    IF ~t.ok THEN MarshalErr("unknown remote client address")
    ELSE IF t.err THEN MarshalErr("could not interpret message")
    ELSE IF t.fortuneReq # t.validNonce THEN MarshalErr("incorrect fortune nonce")
    ELSE MarshalFortune(FortuneString)

\* the one datagram fortune writes
FortuneAnswer(t) ==
    IF t.err THEN MarshalErr("could not interpret message")
    ELSE IF ~t.ok THEN MarshalErr("unknown remote client address")
    ELSE IF t.fortuneReq # t.validNonce THEN MarshalErr("incorrect fortune nonce")
    ELSE MarshalFortune(FortuneString)

\* conn.WriteToUDP(..., cAddr); return, on each of the four branches
FortuneReply(h) ==
    /\ h \in DOMAIN fTasks /\ fTasks[h].pc = "reply"
    /\ ReplyAndReturn("fserver", h, fTasks[h], FortuneAnswer(fTasks[h]))
    /\ fTasks' = Without(fTasks, h)
    /\ UNCHANGED <<aVars, rpcConn, rpcTasks, fm, fMux, fRand, client, calls, nRecv, nSent>>

(***************************************************************************)
(* The environment: hosts that send datagrams to the two services.  A      *)
(* sender can use what has been on the wire: the nonces and fortune nonces *)
(* the aserver has sent.                                                   *)
(***************************************************************************)
SeenNonces ==
    {d.body.f.Nonce.i : d \in {e \in sent : "Nonce" \in DOMAIN e.body.f}}

SeenFortuneNonces ==
    {d.body.f.FortuneNonce.i : d \in {e \in sent : "FortuneNonce" \in DOMAIN e.body.f}}

\* json.Marshal(HashMessage{h}) and its length: {"Hash":"..."}
HashPayload(h) == [body |-> MarshalHash(h), n |-> 11 + StrLen(h)]

\* the client's first datagram: its 1024-byte buffer, zero but for msg[2] = 2,
\* which is no JSON text
ProbePayload == [body |-> Invalid, n |-> 1024]

\* datagrams sent to the aserver, with their lengths in bytes:
\* the probe, {} , {"FortuneNonce":0} , and HashMessages computed from a nonce
\* seen on the wire
AuthPayloads ==
    {ProbePayload, [body |-> Obj(<<>>), n |-> 2],
     [body |-> MarshalFortuneReq(Zero64), n |-> 18]}
    \cup {HashPayload(HashOf(N, sec)) : N \in SeenNonces, sec \in {Secret}}

\* datagrams sent to the fserver: no JSON, a HashMessage, a FortuneNonce that
\* is a string, and FortuneReqMessages with a fortune nonce seen on the wire
FortunePayloads ==
    {Invalid, MarshalHash(Lit("")), Obj("FortuneNonce" :> JStr(Lit("7")))}
    \cup {MarshalFortuneReq(T) : T \in SeenFortuneNonces}

\* some host sends one of these payloads to the aserver from address a
SendToAserver(a) ==
    /\ nSent < MaxDatagrams
    /\ nSent' = nSent + 1
    /\ \E p \in AuthPayloads : AuthReceive(a, p.body, p.n)
    /\ UNCHANGED <<rpcConn, rpcTasks, fVars, client, sent, ended, calls>>

\* some host sends one of these bodies to the fserver from address a
SendToFserver(a) ==
    /\ nSent < MaxDatagrams
    /\ nSent' = nSent + 1
    /\ \E body \in FortunePayloads : FortuneReceive(a, body)
    /\ UNCHANGED <<aVars, rpcConn, rpcTasks, client, sent, ended, calls>>

(***************************************************************************)
(* client.go main: the client driver at local address a.                   *)
(***************************************************************************)
\* aConn.Write: the datagram reaches the aserver's receive loop (a stopped
\* aserver receives nothing)
ClientWriteAserver(a, p) ==
    /\ IF aUp THEN AuthReceive(a, p.body, p.n) ELSE UNCHANGED <<aVars, nRecv>>
    /\ UNCHANGED fVars

\* fConn.Write: the datagram reaches the fserver's receive loop
ClientWriteFserver(a, body) ==
    /\ FortuneReceive(a, body)
    /\ UNCHANGED aVars

\* the datagrams waiting on the client's connected socket: those the peer of
\* the connection has written to a while the socket was open and the client
\* has not read
Inbox(a) ==
    {[task |-> d.task, body |-> d.body] :
        d \in {e \in sent : e.to = a /\ e.svc = client[a].conn /\ e.heard
                            /\ e.task \notin client[a].read}}

\* printErr(err) with err != nil: print the error, os.Exit(1)
ClientExit1(c) == [c EXCEPT !.pc = "exited", !.exit = 1]

\* main up to the first Read: send the 1024-byte probe to the aserver
ClientStart(a, sec) ==
    /\ client[a].pc = "idle"
    /\ client' = [client EXCEPT ![a].pc = "read_nonce", ![a].secret = sec,
                                ![a].conn = "aserver"]
    /\ ClientWriteAserver(a, ProbePayload)
    /\ UNCHANGED <<rpcConn, rpcTasks, sent, ended, calls, nSent>>

\* Read; json.Unmarshal into a NonceMessage; hash nonce + secret; send the
\* HashMessage
ClientReadNonce(a, d) ==
    /\ client[a].pc = "read_nonce"
    /\ LET u == Unmarshal(d.body, NonceMessage)
           c == [client[a] EXCEPT !.read = @ \cup {d.task}]
       IN  IF u.err
           THEN /\ client' = [client EXCEPT ![a] = ClientExit1(c)]
                /\ UNCHANGED <<aVars, fVars, nRecv>>
           ELSE /\ client' = [client EXCEPT ![a] = [c EXCEPT !.pc = "read_info"]]
                /\ ClientWriteAserver(a, HashPayload(HashOf(u.v.Nonce.i,
                                                                 client[a].secret)))
    /\ UNCHANGED <<rpcConn, rpcTasks, sent, ended, calls, nSent>>

\* net.ResolveUDPAddr, aConn.Close, net.DialUDP and fConn.Write on the
\* FortuneServer string of the FortuneInfoMessage: the fserver's address
\* connects to the fserver; the empty string resolves without error to an
\* address with no host and port 0, on which the dial or the write fails or
\* the datagram goes nowhere; any other text does not resolve
DialOutcomes(server) ==
    IF server = FserverUDP THEN {"fserver"}
    ELSE IF server = Lit("") THEN {"error", "nowhere"}
    ELSE {"error"}

\* Read; json.Unmarshal into a FortuneInfoMessage; connect to the fserver and
\* send the FortuneReqMessage
ClientReadInfo(a, d) ==
    /\ client[a].pc = "read_info"
    /\ LET u == Unmarshal(d.body, FortuneInfoMessage)
           c == [client[a] EXCEPT !.read = @ \cup {d.task}]
       IN  IF u.err
           THEN /\ client' = [client EXCEPT ![a] = ClientExit1(c)]
                /\ UNCHANGED <<aVars, fVars, nRecv>>
           ELSE \E o \in DialOutcomes(u.v.FortuneServer.s) :
                   IF o = "error"
                   THEN /\ client' = [client EXCEPT ![a] = ClientExit1(c)]
                        /\ UNCHANGED <<aVars, fVars, nRecv>>
                   ELSE /\ client' = [client EXCEPT
                                        ![a] = [c EXCEPT !.pc = "read_fortune",
                                                         !.conn = o]]
                        /\ IF o = "fserver"
                           THEN ClientWriteFserver(a, MarshalFortuneReq(u.v.FortuneNonce.i))
                           ELSE UNCHANGED <<aVars, fVars, nRecv>>
    /\ UNCHANGED <<rpcConn, rpcTasks, sent, ended, calls, nSent>>

\* Read; json.Unmarshal into a FortuneMessage; fmt.Println(fMsg.Fortune)
ClientReadFortune(a, d) ==
    /\ client[a].pc = "read_fortune"
    /\ LET u == Unmarshal(d.body, FortuneMessage)
           c == [client[a] EXCEPT !.read = @ \cup {d.task}]
       IN  client' = [client EXCEPT
                        ![a] = IF u.err THEN ClientExit1(c)
                               ELSE [c EXCEPT !.pc = "done", !.exit = 0,
                                              !.printed = <<u.v.Fortune.s>>]]
    /\ UNCHANGED <<aVars, rpcConn, rpcTasks, fVars, sent, ended, calls, nRecv, nSent>>

(***************************************************************************)
(* Specifications.                                                         *)
(***************************************************************************)
\* the goroutines of the aserver
AserverStep ==
    \E h \in DOMAIN aTasks :
        \/ AuthSeed(h)
        \/ AuthDraw(h)
        \/ AuthLock(h)
        \/ AuthStore(h)
        \/ AuthSendNonce(h)
        \/ AuthLoad(h)
        \/ AuthCheck(h)
        \/ AuthReplyInfo(h)

\* the goroutines of the fserver
FserverStep ==
    \/ \E h \in DOMAIN rpcTasks :
          \/ RpcSeed(h)
          \/ RpcDraw(h)
          \/ RpcLock(h)
          \/ RpcStore(h)
          \/ RpcReturn(h)
    \/ \E h \in DOMAIN fTasks :
          \/ FortuneLock(h)
          \/ FortuneLoad(h)
          \/ FortuneReply(h)

\* the client at address a, started with the secret sec
ClientStep(a, sec) ==
    \/ ClientStart(a, sec)
    \/ \E d \in Inbox(a) :
          \/ ClientReadNonce(a, d)
          \/ ClientReadInfo(a, d)
          \/ ClientReadFortune(a, d)

\* the address of the client that runs beside the other senders
ClientAddr == "A"

\* The two services, a client started with the aserver's secret, and other
\* hosts that send to the services from any address, the client's included.
\* Datagrams may be delayed without bound, which is also how they are lost.
Next ==
    \/ \E a \in Addr : SendToAserver(a)
    \/ \E a \in Addr : SendToFserver(a)
    \/ ClientStep(ClientAddr, Secret)
    \/ AserverStep
    \/ FserverStep

Spec == Init /\ [][Next]_vars

\* Clients started with the aserver's secret, each the only sender from its
\* address; no datagram is lost and the RPC connection stays up.
NextE2E ==
    \/ \E a \in Addr : ClientStep(a, Secret)
    \/ AserverStep
    \/ FserverStep

\* some client or goroutine can take a step of NextE2E: the guards of its
\* actions, written out
CanStepE2E ==
    \/ \E a \in Addr :
          \/ client[a].pc = "idle"
          \/ client[a].pc \in {"read_nonce", "read_info", "read_fortune"}
             /\ Inbox(a) # {}
    \/ /\ aUp
       /\ \E h \in DOMAIN aTasks :
             \/ aTasks[h].pc \in {"seed", "draw", "store", "send_nonce", "load",
                                  "check", "reply"}
             \/ aTasks[h].pc \in {"lock_w", "lock_r"} /\ recordsMux = NoTask
    \/ \E h \in DOMAIN rpcTasks :
          \/ rpcTasks[h].pc \in {"seed", "draw", "store", "return"}
          \/ rpcTasks[h].pc = "lock" /\ fMux = NoTask
    \/ \E h \in DOMAIN fTasks :
          \/ fTasks[h].pc \in {"load", "reply"}
          \/ fTasks[h].pc = "lock" /\ fMux = NoTask

\* Weak fairness of NextE2E, WF_vars(NextE2E), with its enabling condition
\* written as CanStepE2E: the system does not stop while a client or a
\* goroutine can take a step.  No run has a cycle, so this is implied by fair
\* scheduling of every client, handler and call.
SpecE2E ==
    /\ Init
    /\ [][NextE2E]_vars
    /\ ([]<>(~CanStepE2E) \/ []<><<NextE2E>>_vars)

\* Spec with an RPC connection that may break.
NextFault ==
    \/ Next
    \/ RpcConnLost
    \/ \E h \in DOMAIN aTasks : AuthCallFailed(h)

SpecFault == Init /\ [][NextFault]_vars

(***************************************************************************)
(* Claims.                                                                 *)
(***************************************************************************)
\* C1: under SpecE2E (same secret, no loss, each client the only sender from
\* its address, fair scheduling) every client run eventually ends having
\* printed exactly the fserver's fortune string, with exit status 0.
C1_EndToEnd ==
    <>(\A a \in Addr : /\ client[a].pc = "done"
                       /\ client[a].exit = 0
                       /\ client[a].printed = <<FortuneString>>)

\* both clients have run to the end and printed the fortune
C1_Witness ==
    \A a \in Addr : client[a].pc = "done" /\ client[a].printed = <<FortuneString>>


(***************************************************************************)
(* Vocabulary of the properties below, over the log of written datagrams.  *)
(***************************************************************************)
AuthReplies == {d \in sent : d.svc = "aserver"}

FortuneReplies == {d \in sent : d.svc = "fserver"}

\* the member names of a reply body
Shape(body) == DOMAIN body.f

IsNonceChallenge(d) == d.svc = "aserver" /\ Shape(d.body) = {"Nonce"}

IsHandoffInfo(d) == d.svc = "aserver" /\ Shape(d.body) = {"FortuneServer", "FortuneNonce"}

IsErrorNotice(d, txt) == d.body = MarshalErr(txt)

\* the request a reply answers decoded without error at the service
DecodedAt(d) ==
    ~Unmarshal(d.req, IF d.svc = "aserver" THEN HashMessage ELSE FortuneReqMessage).err

\* the handoff calls made for a task: running or returned
CallsOf(h) == {c \in calls : c.task = h}

HasCall(h) == h \in DOMAIN rpcTasks \/ CallsOf(h) # {}

\* C2: a second Probe from an address replaces its pending nonce, so when an
\* address sends Probe, Probe, and then a HashMessage computed against the
\* nonce of the first Probe's reply, each handled before the next arrives, the
\* reply to the HashMessage is ErrorNotice("unexpected hash value") and no
\* handoff call is made for it.
C2_SessionOverwrite ==
    \A p1, p2, r \in AuthReplies :
        ( /\ p1.to = p2.to /\ p2.to = r.to
          /\ p1.solo /\ p2.solo /\ r.solo
          /\ p1.task < p2.task /\ p2.task < r.task
          /\ IsNonceChallenge(p1) /\ IsNonceChallenge(p2)
          /\ ~DecodedAt(p1) /\ ~DecodedAt(p2)
          /\ \A e \in AuthReplies :
                e.to = r.to /\ p1.task < e.task /\ e.task < r.task => e = p2
          /\ r.req = MarshalHash(HashOf(p1.body.f.Nonce.i, Secret)) )
        => /\ IsErrorNotice(r, "unexpected hash value")
           /\ ~HasCall(r.task)

\* C3: the fserver's reply to a FortuneRequest{T} from address A is decided by
\* what its table holds for A: no entry gives ErrorNotice("unknown remote
\* client address"), an entry other than T gives ErrorNotice("incorrect
\* fortune nonce"), the entry T gives the FortuneMessage with the configured
\* fortune string, and nothing else is sent; the fortune is only sent for a
\* token that a handoff call stored for A.
C3_HandoffBinding ==
    \A d \in FortuneReplies :
        DecodedAt(d) =>
            LET T == Unmarshal(d.req, FortuneReqMessage).v.FortuneNonce.i
            IN  /\ ~d.ok => IsErrorNotice(d, "unknown remote client address")
                /\ d.ok /\ d.validNonce # T => IsErrorNotice(d, "incorrect fortune nonce")
                /\ d.ok /\ d.validNonce = T => d.body = MarshalFortune(FortuneString)
                /\ d.to \notin DOMAIN fm => IsErrorNotice(d, "unknown remote client address")
                /\ d.body = MarshalFortune(FortuneString) =>
                      \/ \E c \in calls :
                            c.clientAddr = d.to /\ c.grant.FortuneNonce = T
                      \/ \E h \in DOMAIN rpcTasks :
                            /\ rpcTasks[h].pc = "return"
                            /\ rpcTasks[h].clientAddr = d.to
                            /\ rpcTasks[h].newNonce = T

\* the fserver has answered one decodable request with the fortune and another
\* with "incorrect fortune nonce"
C3_Witness ==
    \E d1, d2 \in FortuneReplies :
        /\ DecodedAt(d1) /\ d1.body = MarshalFortune(FortuneString)
        /\ DecodedAt(d2) /\ d2.ok /\ IsErrorNotice(d2, "incorrect fortune nonce")

\* the fserver has answered a decodable request from an address it holds no
\* token for
C3_WitnessUnknown ==
    \E d \in FortuneReplies :
        DecodedAt(d) /\ ~d.ok /\ IsErrorNotice(d, "unknown remote client address")

\* the pcs of handleRequest from the table lookup on (the hash branch)
HashBranchPcs == {"lock_r", "load", "check", "await", "reply"}

\* task h of the aserver takes part in the step: it moves or ends
AuthTaskSteps(h) ==
    /\ h \in DOMAIN aTasks
    /\ h \in DOMAIN aTasks' => aTasks'[h].pc # aTasks[h].pc

\* C4: a HashMessage from an address with no entry in the aserver's table is
\* answered with ErrorNotice("unknown remote client address"), no handoff call
\* is made for it, and handling it leaves the table unchanged.
C4_UnknownAddress ==
    /\ [](\A d \in AuthReplies :
            DecodedAt(d) =>
               /\ ~d.ok => /\ IsErrorNotice(d, "unknown remote client address")
                           /\ ~HasCall(d.task)
               /\ d.to \notin DOMAIN records =>
                     IsErrorNotice(d, "unknown remote client address"))
    /\ [](\A a \in Addr \ DOMAIN records :
            /\ \A c \in calls : c.clientAddr # a
            /\ \A h \in DOMAIN rpcTasks : rpcTasks[h].clientAddr # a)
    /\ [][\A h \in DOMAIN aTasks :
            aTasks[h].pc \in HashBranchPcs /\ AuthTaskSteps(h) => records' = records]_vars

\* the aserver has answered a decodable datagram from an address it holds no
\* nonce for
C4_Witness ==
    \E d \in AuthReplies :
        /\ DecodedAt(d) /\ ~d.ok /\ d.to \notin DOMAIN records
        /\ IsErrorNotice(d, "unknown remote client address")

\* handling a payload that fails to decode cannot stop the aserver: such a
\* task never enters the hash branch, and the process only stops in a step of a
\* task that decoded its datagram and is past the table lookup.  (The fserver
\* has no step that stops it.)
UndecodableNeverStops ==
    /\ [](\A h \in DOMAIN aTasks :
            Unmarshal(aTasks[h].msg, HashMessage).err => aTasks[h].pc \notin HashBranchPcs)
    /\ [][aUp /\ ~aUp' =>
            \E h \in DOMAIN aTasks :
                /\ aTasks[h].pc = "check"
                /\ ~Unmarshal(aTasks[h].msg, HashMessage).err
                /\ AuthVerdict(aTasks[h]) = "panic"]_vars

\* C5 as stated: a payload that fails to decode is answered with
\* ErrorNotice("could not interpret message") by either service, and handling
\* it never stops the service.
C5_Original ==
    /\ [](\A d \in sent :
            ~DecodedAt(d) => IsErrorNotice(d, "could not interpret message"))
    /\ UndecodableNeverStops

\* C5: a payload that fails to decode is answered by the fserver with
\* ErrorNotice("could not interpret message") and by the aserver, which takes
\* it for a Probe, with a NonceChallenge; handling it never stops the service.
C5_Malformed ==
    /\ [](\A d \in sent :
            ~DecodedAt(d) =>
               /\ d.svc = "fserver" => IsErrorNotice(d, "could not interpret message")
               /\ d.svc = "aserver" => IsNonceChallenge(d))
    /\ UndecodableNeverStops

\* both services have answered a payload that failed to decode
C5_Witness ==
    /\ \E d \in FortuneReplies : ~DecodedAt(d)
    /\ \E d \in AuthReplies : ~DecodedAt(d)

\* C6: a HandoffInfo the aserver sends to A is the FortuneInfoMessage that a
\* handoff call made by the same task for A has returned, fserver address and
\* token unchanged, and it is sent only after that call has stored a token
\* for A in the fserver's table and returned.
C6_GrantForwarding ==
    \A d \in AuthReplies :
        IsHandoffInfo(d) =>
            /\ \E c \in CallsOf(d.task) :
                  /\ c.clientAddr = d.to
                  /\ d.body = MarshalFortuneInfo(c.grant.FortuneServer,
                                                 c.grant.FortuneNonce)
                  /\ c.grant.FortuneServer = FserverUDP
            /\ d.to \in DOMAIN fm
            /\ fm[d.to] \in {c.grant.FortuneNonce : c \in {e \in calls : e.clientAddr = d.to}}
                           \cup {rpcTasks[h].newNonce :
                                    h \in {g \in DOMAIN rpcTasks :
                                             /\ rpcTasks[g].clientAddr = d.to
                                             /\ rpcTasks[g].pc = "return"}}

\* the aserver has sent a HandoffInfo
C6_Witness ==
    \E d \in AuthReplies : IsHandoffInfo(d) /\ CallsOf(d.task) # {}

\* C7: two Probes from two different addresses, handled one after the other,
\* are answered with two different nonces, and likewise two handoff calls for
\* two different addresses, made one after the other, return different
\* fortune nonces.
C7_TokenUniqueness ==
    \A d1, d2 \in AuthReplies :
        d1.solo /\ d2.solo /\ d1.to # d2.to =>
            /\ IsNonceChallenge(d1) /\ IsNonceChallenge(d2) =>
                  d1.body.f.Nonce.i # d2.body.f.Nonce.i
            /\ IsHandoffInfo(d1) /\ IsHandoffInfo(d2) =>
                  d1.body.f.FortuneNonce.i # d2.body.f.FortuneNonce.i

\* C8: a task that answers with an ErrorNotice (malformed message, unknown
\* client, hash mismatch, fortune-nonce mismatch) writes exactly one datagram
\* and ends, and no datagram stops a service: the aserver process is running
\* in every reachable state (the fserver has no step that stops it).
C8_ErrorPropagation ==
    /\ aUp
    /\ \A d \in sent :
          Shape(d.body) = {"Error"} =>
             /\ d.task \in ended
             /\ d.task \notin DOMAIN aTasks \cup DOMAIN fTasks
             /\ Cardinality({e \in sent : e.task = d.task}) = 1

\* the member names of the message the client expects at a receive step
ExpectedShape(pc) ==
    CASE pc = "read_nonce" -> {"Nonce"}
      [] pc = "read_info"  -> {"FortuneServer", "FortuneNonce"}
      [] OTHER             -> {"Fortune"}

\* C9: when the datagram a client reads at one of its three receive steps is
\* an ErrorNotice or has any shape but the expected one, the client exits with
\* a nonzero status in that step, having printed no fortune line.
C9_ClientAborts ==
    [][\A a \in Addr : \A d \in sent :
          ( /\ d.to = a
            /\ d.task \in client'[a].read \ client[a].read
            /\ Shape(d.body) # ExpectedShape(client[a].pc) )
          => /\ client'[a].pc = "exited"
             /\ client'[a].exit # 0
             /\ client'[a].printed = <<>>]_vars

\* the member names of the message a service decodes its datagrams into
TargetShape(svc) == IF svc = "aserver" THEN DOMAIN HashMessage ELSE DOMAIN FortuneReqMessage

\* C10: a JSON object whose members are not those of the service's decode
\* target takes the decode-failure branch: the fserver answers it with
\* ErrorNotice("could not interpret message"), the aserver handles it as a
\* Probe and answers with a NonceChallenge.
C10_PermissiveDecode ==
    \A d \in sent :
        d.req.kind = "object" /\ Shape(d.req) # TargetShape(d.svc) =>
            /\ d.svc = "fserver" => IsErrorNotice(d, "could not interpret message")
            /\ d.svc = "aserver" => IsNonceChallenge(d)

\* task h of the fserver's fortune handlers takes part in the step
FortuneTaskSteps(h) ==
    /\ h \in DOMAIN fTasks
    /\ h \in DOMAIN fTasks' => fTasks'[h] # fTasks[h]

\* the fortune nonce a FortuneReqMessage reply answers
ReqToken(d) == Unmarshal(d.req, FortuneReqMessage).v.FortuneNonce.i

\* C11: once a handoff has stored A -> T in the fserver's table, every
\* FortuneReqMessage{T} from A whose lookup finds that entry is answered with
\* the fortune, any number of times, and no step of a fortune handler removes or
\* changes an entry of the table.
C11_Replay ==
    /\ [](\A d \in FortuneReplies :
            DecodedAt(d) /\ d.ok /\ d.validNonce = ReqToken(d) =>
                d.body = MarshalFortune(FortuneString))
    /\ [][\A h \in DOMAIN fTasks : FortuneTaskSteps(h) => fm' = fm]_vars

\* the fserver has served the same token from the same address twice
C11_Witness ==
    \E d1, d2 \in FortuneReplies :
        /\ d1.task # d2.task /\ d1.to = d2.to
        /\ DecodedAt(d1) /\ DecodedAt(d2) /\ ReqToken(d1) = ReqToken(d2)
        /\ d1.body = MarshalFortune(FortuneString)
        /\ d2.body = MarshalFortune(FortuneString)
        /\ d1.to \in DOMAIN fm /\ fm[d1.to] = ReqToken(d1)

\* C12: a nonce is used once: when the aserver has accepted a HashMessage from
\* A computed against the stored nonce N and then, with no datagram from A in
\* between, handles the same HashMessage from A again, the second one is not
\* accepted: it is not answered with a FortuneInfoMessage and no handoff call
\* is made for it.
C12_SingleUse ==
    \A r1, r2 \in AuthReplies :
        ( /\ r1.to = r2.to /\ r1.solo /\ r2.solo
          /\ r1.task < r2.task
          /\ IsHandoffInfo(r1)
          /\ r1.req = MarshalHash(HashOf(r1.validNonce, Secret))
          /\ r2.req = r1.req
          /\ \A e \in AuthReplies :
                e.to = r1.to => ~(r1.task < e.task /\ e.task < r2.task) )
        => /\ ~IsHandoffInfo(r2)
           /\ ~HasCall(r2.task)

\* the pcs at which a handleRequest goroutine writes a datagram next or waits
\* for rpcClient.Call
AuthNetworkPcs == {"send_nonce", "check", "await", "reply"}

\* C13: no goroutine holds a table lock while it sends a datagram or while its
\* handoff call is in flight: a handleRequest goroutine that is about to write
\* to the socket or is inside rpcClient.Call does not hold record.mux, a
\* GetFortuneInfo call that is about to return does not hold the fserver's
\* mux, and a fortune goroutine about to write its reply does not hold it.
C13_LockDiscipline ==
    /\ \A h \in DOMAIN aTasks :
          aTasks[h].pc \in AuthNetworkPcs => recordsMux # h
    /\ \A h \in DOMAIN rpcTasks :
          /\ recordsMux # h
          /\ rpcTasks[h].pc = "return" => fMux # h
    /\ \A h \in DOMAIN fTasks :
          fTasks[h].pc = "reply" => fMux # h
    /\ recordsMux # NoTask /\ aUp =>
          recordsMux \in DOMAIN aTasks /\ aTasks[recordsMux].pc \in {"store", "load"}
    /\ fMux # NoTask =>
          \/ fMux \in DOMAIN rpcTasks /\ rpcTasks[fMux].pc = "store"
          \/ fMux \in DOMAIN fTasks /\ fTasks[fMux].pc = "load"

\* a handoff call is in flight while another handleRequest goroutine holds
\* record.mux
C13_Witness ==
    \E h \in DOMAIN rpcTasks, g \in DOMAIN aTasks :
        /\ h \in DOMAIN aTasks /\ aTasks[h].pc = "await"
        /\ g # h /\ recordsMux = g

\* the handleRequest goroutines that have ended without writing a datagram
Silent == {h \in ended : \A d \in sent : d.task # h}

\* C14: when a HashMessage matches and rpcClient.Call returns an error (the
\* connection to the fserver is down), the next step of the goroutine ends it,
\* writes no datagram and leaves the aserver's table unchanged, and no
\* datagram is written for that request afterwards.  (The goroutine also ends,
\* silently, when the process stops in that step.)
C14_HandoffFailure ==
    /\ [][\A h \in DOMAIN aTasks :
            ( /\ aTasks[h].pc \in {"check", "await"}
              /\ AuthVerdict(aTasks[h]) = "match"
              /\ ~rpcConn
              /\ AuthTaskSteps(h) )
            => /\ h \notin DOMAIN aTasks'
               /\ aUp' => h \in ended'
               /\ sent' = sent
               /\ records' = records]_vars
    /\ [](\A h \in Silent : h \notin DOMAIN aTasks /\ ~rpcConn)
    /\ [][Silent \subseteq Silent']_vars

\* a matching request has been dropped without a reply after the connection
\* to the fserver was lost
C14_Witness ==
    /\ ~rpcConn /\ aUp
    /\ Silent # {}
    /\ \E d \in AuthReplies : IsNonceChallenge(d)

\* GetFortuneInfo call h writes the table in the step
RpcStores(h) ==
    /\ h \in DOMAIN rpcTasks /\ rpcTasks[h].pc = "store"
    /\ h \in DOMAIN rpcTasks' /\ rpcTasks'[h].pc = "return"

\* the entries of a table at the addresses other than a are the same in m1
\* and m2
SameElsewhere(m1, m2, a) ==
    /\ DOMAIN m1 \ {a} = DOMAIN m2 \ {a}
    /\ \A b \in DOMAIN m1 \ {a} : m1[b] = m2[b]

\* C15: handoff calls for different addresses, interleaved with each other
\* and with fortune handlers, do not interfere: the write of a call for A sets
\* A's entry to the token that call returns and changes no other entry, the
\* table changes in no other step, and when all calls have returned every
\* entry is the token returned by a call for its address (the one call, when
\* there was only one).
C15_NoInterference ==
    /\ [][\A h \in DOMAIN rpcTasks :
            RpcStores(h) =>
               /\ rpcTasks[h].clientAddr \in DOMAIN fm'
               /\ fm'[rpcTasks[h].clientAddr] = Grant(rpcTasks'[h]).FortuneNonce
               /\ SameElsewhere(fm, fm', rpcTasks[h].clientAddr)]_vars
    /\ [][fm' # fm => \E h \in DOMAIN rpcTasks : RpcStores(h)]_vars
    /\ [](rpcTasks = <<>> =>
            /\ DOMAIN fm = {c.clientAddr : c \in calls}
            /\ \A a \in DOMAIN fm :
                  fm[a] \in {c.grant.FortuneNonce : c \in {e \in calls : e.clientAddr = a}})

\* calls for A and for B have run interleaved (their seed and draw steps
\* crossed, so they returned different tokens) and both have returned
C15_Witness ==
    /\ rpcTasks = <<>>
    /\ \E c1, c2 \in calls :
          /\ c1.clientAddr = "A" /\ c2.clientAddr = "B"
          /\ c1.grant.FortuneNonce # c2.grant.FortuneNonce
          /\ fm = ("A" :> c1.grant.FortuneNonce) @@ ("B" :> c2.grant.FortuneNonce)

\* C16: the aserver's table is written only by the handling of a Probe (a
\* datagram that does not decode), only at the sender's address, and never by
\* the handling of a HashMessage; the fserver's table is written only by
\* GetFortuneInfo, only at its argument address, and never by a fortune
\* handler; a step that writes one table leaves the other unchanged; each
\* table is a map from client addresses, so it holds one token per address.
C16_Frames ==
    /\ [][records' # records =>
            /\ fm' = fm
            /\ \E h \in DOMAIN aTasks :
                  /\ aTasks[h].pc = "store" /\ AuthTaskSteps(h)
                  /\ Unmarshal(aTasks[h].msg, HashMessage).err
                  /\ aTasks[h].cAddr \in DOMAIN records'
                  /\ SameElsewhere(records, records', aTasks[h].cAddr)]_vars
    /\ [][fm' # fm =>
            /\ records' = records
            /\ \E h \in DOMAIN rpcTasks :
                  /\ RpcStores(h)
                  /\ rpcTasks[h].clientAddr \in DOMAIN fm'
                  /\ SameElsewhere(fm, fm', rpcTasks[h].clientAddr)]_vars
    /\ [][\A h \in DOMAIN aTasks :
            ~Unmarshal(aTasks[h].msg, HashMessage).err /\ AuthTaskSteps(h)
               => records' = records]_vars
    /\ [][\A h \in DOMAIN fTasks : FortuneTaskSteps(h) => fm' = fm /\ records' = records]_vars
    /\ [](DOMAIN records \subseteq Addr /\ DOMAIN fm \subseteq Addr)

\* both tables hold an entry, and a HashMessage and a FortuneReqMessage have
\* been handled
C16_Witness ==
    /\ records # <<>> /\ fm # <<>>
    /\ \E d \in AuthReplies : DecodedAt(d)
    /\ \E d \in FortuneReplies : DecodedAt(d)

\* the nonces the aserver has sent to address a
NoncesSentTo(a) == {d.body.f.Nonce.i : d \in {e \in AuthReplies : e.to = a /\ IsNonceChallenge(e)}}

\* reply r answers a HashMessage computed, with the aserver's secret, against
\* a nonce that was sent to the address but was no longer the stored one when
\* the table was read
StaleHash(r) ==
    /\ r.svc = "aserver" /\ DecodedAt(r) /\ r.ok
    /\ \E N \in NoncesSentTo(r.to) :
          N # r.validNonce /\ r.req = MarshalHash(HashOf(N, Secret))

\* the write of a Probe handler leaves its own nonce in the table, so of two
\* racing Probes the later write stays
LaterWriteStays ==
    [][\A h \in DOMAIN aTasks :
          aTasks[h].pc = "store" /\ AuthTaskSteps(h) /\ aUp' =>
             /\ aTasks[h].cAddr \in DOMAIN records'
             /\ records'[aTasks[h].cAddr] = aTasks[h].newNonce]_vars

\* C17 as stated: after two racing Probes from A the table holds the nonce of
\* the later write, and a HashMessage from A computed against the overwritten
\* nonce is answered with ErrorNotice("unknown remote client address").
C17_Original ==
    /\ LaterWriteStays
    /\ [](\A r \in AuthReplies :
            StaleHash(r) => IsErrorNotice(r, "unknown remote client address"))

\* C17: after two racing Probes from A the table holds the nonce of the later
\* write, and a HashMessage from A computed against the overwritten nonce is
\* answered with ErrorNotice("unexpected hash value"), with no handoff call.
C17_DuplicateProbeRace ==
    /\ LaterWriteStays
    /\ [](\A r \in AuthReplies :
            StaleHash(r) => /\ IsErrorNotice(r, "unexpected hash value")
                            /\ ~HasCall(r.task))

\* two Probes from one address were handled concurrently and got different
\* nonces, and a HashMessage against the overwritten one has been answered
C17_Witness ==
    \E p1, p2, r \in AuthReplies :
        /\ p1.to = r.to /\ p2.to = r.to
        /\ IsNonceChallenge(p1) /\ IsNonceChallenge(p2)
        /\ ~p1.solo /\ ~p2.solo
        /\ p1.body.f.Nonce.i # p2.body.f.Nonce.i
        /\ StaleHash(r)
        /\ r.validNonce \in {p1.body.f.Nonce.i, p2.body.f.Nonce.i}

\* the addresses a handoff call has been made for: running or returned
Verified == {c.clientAddr : c \in calls} \cup {rpcTasks[h].clientAddr : h \in DOMAIN rpcTasks}

\* C18: the fortune is sent to address A only if the aserver accepted a
\* HashMessage from A, equal to the hash of A's stored nonce plus the secret,
\* and the handoff call made for it stored an entry for A: a handoff call
\* starts only in a step of a handleRequest goroutine for that address whose
\* lookup found a nonce and whose hash is the hash of the nonce it read plus
\* the secret; the fserver's table has entries only for addresses such a call has
\* written; and an address without such a call has received no fortune,
\* whatever fortune nonce it sent.
C18_Soundness ==
    /\ [][\A h \in DOMAIN rpcTasks' \ DOMAIN rpcTasks :
            /\ h \in DOMAIN aTasks /\ aTasks[h].pc = "check"
            /\ aTasks[h].cAddr = rpcTasks'[h].clientAddr
            /\ aTasks[h].ok
            /\ aTasks[h].hash = HashOf(aTasks[h].validNonce, Secret)
            /\ aTasks[h].msg = MarshalHash(aTasks[h].hash)]_vars
    /\ [](DOMAIN fm \subseteq Verified)
    /\ [](\A d \in FortuneReplies :
            d.body = MarshalFortune(FortuneString) =>
               /\ d.to \in Verified
               /\ d.ok /\ d.to \in DOMAIN fm)

\* the fortune has been sent to a verified address, and an address that never
\* passed the hash check has presented that address's valid fortune nonce and
\* has been refused
C18_Witness ==
    \E d, e \in FortuneReplies :
        /\ d.body = MarshalFortune(FortuneString)
        /\ e.to \notin Verified
        /\ DecodedAt(e) /\ ReqToken(e) = ReqToken(d)
        /\ Shape(e.body) = {"Error"}

\* C19: whenever a handleRequest goroutine has decoded its datagram as a
\* HashMessage and found a stored nonce for the sender, the varint of nonce +
\* secret fits into the n bytes of the datagram, so binary.PutVarint(msg, value)
\* does not write out of bounds.
C19_BufferBound ==
    \A h \in DOMAIN aTasks :
        ( /\ aTasks[h].pc = "check"
          /\ ~Unmarshal(aTasks[h].msg, HashMessage).err
          /\ aTasks[h].ok )
        => ~PutVarint(aTasks[h].n, Add64(aTasks[h].validNonce, Secret)).panic

\* GetFortuneInfo call h takes part in the step
RpcTaskSteps(h) ==
    /\ h \in DOMAIN rpcTasks
    /\ h \in DOMAIN rpcTasks' => rpcTasks'[h].pc # rpcTasks[h].pc

\* C20: in every interleaving of Probe handlers every NonceMessage carries
\* the first draw after rand.Seed(222), every GetFortuneInfo call returns the
\* first draw after rand.Seed(110), and between the seed and the draw of one
\* handler no other handler changes the generator.
C20_SeedDrawAtomic ==
    /\ [](\A d \in AuthReplies :
            IsNonceChallenge(d) => d.body.f.Nonce.i = Int63At(AserverSeed, 0))
    /\ [](\A c \in calls : c.grant.FortuneNonce = Int63At(FserverSeed, 0))
    /\ [][\A h \in DOMAIN aTasks :
            aTasks[h].pc = "draw" /\ aRand' # aRand => AuthTaskSteps(h)]_vars
    /\ [][\A h \in DOMAIN rpcTasks :
            rpcTasks[h].pc = "draw" /\ fRand' # fRand => RpcTaskSteps(h)]_vars
====
